---- MODULE Spec2Model ----
(***************************************************************************)
(* Model of the Windows port of the corePKCS11 PAL                         *)
(* (source/portable/windows/core_pkcs11_pal.c): a label registry and a     *)
(* file-per-object store.  The state is the content of the four backing    *)
(* files plus the arguments and results of the last PAL call.  In Spec a   *)
(* single thread calls the PAL and every function is one atomic action; in *)
(* ConcSpec two threads run a save and a get_object_value step by step.    *)
(* The Win32 primitives and the allocator are modelled by their outcome,   *)
(* chosen by the environment.                                              *)
(***************************************************************************)
EXTENDS Integers, Sequences, FiniteSets, TLC

VARIABLES files, call, ret, out, openHandles, saver, getter

vars == <<files, call, ret, out, openHandles, saver, getter>>

-----------------------------------------------------------------------------
(* Bounds of the model.                                                    *)

\* Longest object blob a caller saves.
MaxDataLen == 1

\* Largest handle value a caller passes (0 and MaxHandle are not valid).
MaxHandle == 5

-----------------------------------------------------------------------------
(* Program constants.                                                      *)

eInvalidHandle == 0
eAwsDevicePrivateKey == 1
eAwsDevicePublicKey == 2
eAwsDeviceCertificate == 3
eAwsCodeSigningKey == 4

pkcs11palFILE_NAME_CLIENT_CERTIFICATE == "FreeRTOS_P11_Certificate.dat"
pkcs11palFILE_NAME_PUBLIC_KEY == "FreeRTOS_P11_PubKey.dat"
pkcs11palFILE_NAME_KEY == "FreeRTOS_P11_Key.dat"
pkcs11palFILE_CODE_SIGN_PUBLIC_KEY == "FreeRTOS_P11_CodeSignKey.dat"

FileNames ==
    { pkcs11palFILE_NAME_CLIENT_CERTIFICATE, pkcs11palFILE_NAME_PUBLIC_KEY,
      pkcs11palFILE_NAME_KEY, pkcs11palFILE_CODE_SIGN_PUBLIC_KEY }

\* The null pointer, as the value of a char * file name.
NULL == "NULL"

\* The value of a HANDLE that names no open file.
INVALID_HANDLE_VALUE == "INVALID_HANDLE_VALUE"

CK_TRUE == "CK_TRUE"
CK_FALSE == "CK_FALSE"

CKR_OK == "CKR_OK"
CKR_HOST_MEMORY == "CKR_HOST_MEMORY"
CKR_FUNCTION_FAILED == "CKR_FUNCTION_FAILED"
CKR_KEY_HANDLE_INVALID == "CKR_KEY_HANDLE_INVALID"
CKR_OBJECT_HANDLE_INVALID == "CKR_OBJECT_HANDLE_INVALID"

\* The label constants of core_pkcs11_config.h, as the bytes sizeof() covers:
\* the characters of the string literal and its terminating NUL (byte 0).
\* The four literals are distinct and none contains a NUL before its end.
pkcs11configLABEL_DEVICE_CERTIFICATE_FOR_TLS == <<1, 1, 0>>
pkcs11configLABEL_DEVICE_PRIVATE_KEY_FOR_TLS == <<1, 2, 0>>
pkcs11configLABEL_DEVICE_PUBLIC_KEY_FOR_TLS == <<2, 1, 0>>
pkcs11configLABEL_CODE_VERIFICATION_KEY == <<2, 2, 0>>

KnownLabels ==
    { pkcs11configLABEL_DEVICE_CERTIFICATE_FOR_TLS,
      pkcs11configLABEL_DEVICE_PRIVATE_KEY_FOR_TLS,
      pkcs11configLABEL_DEVICE_PUBLIC_KEY_FOR_TLS,
      pkcs11configLABEL_CODE_VERIFICATION_KEY }

-----------------------------------------------------------------------------
(* Inputs.                                                                 *)

LabelBytes == 0..2
DataBytes == 0..1

\* A label argument: a null pointer, or a pointer to a buffer of bytes.
NullLabel == [null |-> TRUE, bytes |-> <<>>]
LabelPtr(s) == [null |-> FALSE, bytes |-> s]

\* The labels callers pass: no label, the four known labels, a known label
\* without its NUL, a known label followed by one more byte, and the text of
\* a known label continued by a further character instead of the NUL.
LabelSeqs ==
    KnownLabels
    \cup { SubSeq(pkcs11configLABEL_DEVICE_CERTIFICATE_FOR_TLS, 1, 2) }
    \cup { pkcs11configLABEL_DEVICE_CERTIFICATE_FOR_TLS \o <<1>> }
    \cup { <<1, 1, 1>> }

LabelInputs == { NullLabel } \cup { LabelPtr(s) : s \in LabelSeqs }

\* The bytes that follow a label buffer in memory: what memcmp reads when
\* the buffer is shorter than the constant it is compared with.
\* Only the bytes memcmp can reach are chosen.
Tails(label) ==
    LET sizeof == Len(pkcs11configLABEL_DEVICE_CERTIFICATE_FOR_TLS)
        missing == IF label.null \/ Len(label.bytes) >= sizeof
                   THEN 0
                   ELSE sizeof - Len(label.bytes)
    IN [1..missing -> LabelBytes]

Blobs == UNION { [1..n -> DataBytes] : n \in 0..MaxDataLen }

HandleInputs == 0..MaxHandle

NoFile == [exists |-> FALSE, data |-> <<>>]
File(d) == [exists |-> TRUE, data |-> d]

\* The record of a call: its arguments and the fault the environment raised.
NoCall == [op |-> "none", label |-> NullLabel, handle |-> eInvalidHandle,
           data |-> <<>>, env |-> "none"]

\* What a call returned (rv: a CK_RV; xHandle: an object handle), the file
\* name and the handle the registry resolved for it, whether it found that
\* file to exist, and how many file handles it opened.
NoRet == [rv |-> "none", xHandle |-> eInvalidHandle, pcFileName |-> NULL,
          pHandle |-> eInvalidHandle, existed |-> FALSE, opened |-> 0]

\* The caller's *ppucData, *pulDataSize and *pIsPrivate, and the bytes in
\* the buffer; indeterminate ("unset", -1) until get_object_value writes
\* them.
NoOut == [ppucData |-> "unset", data |-> <<>>, pulDataSize |-> -1,
          pIsPrivate |-> "unset"]

-----------------------------------------------------------------------------
(* Win32 primitives, by outcome.                                           *)

\* GetFileAttributesA: INVALID_FILE_ATTRIBUTES iff the file does not exist.
\* For a null name the call fails or not as the OS decides (nullProbe).
GetFileAttributesA(fs, lpFileName, nullProbe) ==
    IF lpFileName = NULL
    THEN (IF nullProbe THEN "FILE_ATTRIBUTE_NORMAL" ELSE "INVALID_FILE_ATTRIBUTES")
    ELSE IF fs[lpFileName].exists
         THEN "FILE_ATTRIBUTE_NORMAL"
         ELSE "INVALID_FILE_ATTRIBUTES"

\* CreateFileA( name, GENERIC_WRITE, 0, NULL, CREATE_ALWAYS, ... ): on
\* success the file exists and is empty, whatever it held before.
CreateAlways(fs, name, ok) ==
    IF ok
    THEN [hFile |-> name, fs |-> [fs EXCEPT ![name] = File(<<>>)]]
    ELSE [hFile |-> INVALID_HANDLE_VALUE, fs |-> fs]

\* WriteFile( hFile, buf, n, &written, NULL ) at the start of the file hFile:
\* it stores the first k <= n bytes of buf, reports k in written and returns
\* ok.  It returns TRUE with k = n, TRUE with k < n (a short write), or FALSE
\* with whatever it stored before it failed.  Bytes of the file beyond those
\* written stay.
WriteFile(fs, hFile, buf, n, ok, k) ==
    LET old == fs[hFile].data
        new == SubSeq(buf, 1, k) \o SubSeq(old, k + 1, Len(old))
    IN [ok |-> ok, written |-> k, fs |-> [fs EXCEPT ![hFile] = File(new)]]

\* CreateFileA( name, GENERIC_READ, FILE_SHARE_READ, NULL, OPEN_EXISTING,
\* ... ): a handle to the file, or INVALID_HANDLE_VALUE when the open fails
\* or no such file exists.
OpenExisting(fs, name, ok) ==
    IF ok /\ fs[name].exists THEN name ELSE INVALID_HANDLE_VALUE

\* DeleteFileA: nonzero and the file is gone, or zero and nothing changed
\* (a file that does not exist cannot be deleted).
DeleteFileA(fs, name, ok) ==
    IF ok /\ fs[name].exists
    THEN [nonzero |-> TRUE, fs |-> [fs EXCEPT ![name] = NoFile]]
    ELSE [nonzero |-> FALSE, fs |-> fs]

-----------------------------------------------------------------------------
(* The label registry.                                                     *)

\* memcmp( buf, const, sizeof( const ) ): 0 iff the first sizeof( const )
\* bytes at buf equal const.  The length of the label is not looked at: a
\* buffer shorter than the constant is read past its end, into tail.
memcmp(buf, tail, const) ==
    LET mem == buf \o tail
    IN IF \A i \in 1..Len(const) : i <= Len(mem) /\ mem[i] = const[i] THEN 0 ELSE 1

prvFileExists(fs, pcFileName, nullProbe) ==
    GetFileAttributesA(fs, pcFileName, nullProbe) # "INVALID_FILE_ATTRIBUTES"

\* A registry whose public-key branch was copied from the private-key branch
\* and kept its file name and handle.
prvLabelToFilenameHandle_CopiedBranch(pcLabel, tail, pcFileName0, pHandle0) ==
    IF pcLabel.null
    THEN [pcFileName |-> pcFileName0, pHandle |-> pHandle0]
    ELSE IF 0 = memcmp(pcLabel.bytes, tail, pkcs11configLABEL_DEVICE_CERTIFICATE_FOR_TLS)
    THEN [pcFileName |-> pkcs11palFILE_NAME_CLIENT_CERTIFICATE,
          pHandle |-> eAwsDeviceCertificate]
    ELSE IF 0 = memcmp(pcLabel.bytes, tail, pkcs11configLABEL_DEVICE_PRIVATE_KEY_FOR_TLS)
    THEN [pcFileName |-> pkcs11palFILE_NAME_KEY,
          pHandle |-> eAwsDevicePrivateKey]
    ELSE IF 0 = memcmp(pcLabel.bytes, tail, pkcs11configLABEL_DEVICE_PUBLIC_KEY_FOR_TLS)
    THEN [pcFileName |-> pkcs11palFILE_NAME_KEY,
          pHandle |-> eAwsDevicePrivateKey]
    ELSE IF 0 = memcmp(pcLabel.bytes, tail, pkcs11configLABEL_CODE_VERIFICATION_KEY)
    THEN [pcFileName |-> pkcs11palFILE_CODE_SIGN_PUBLIC_KEY,
          pHandle |-> eAwsCodeSigningKey]
    ELSE [pcFileName |-> NULL, pHandle |-> eInvalidHandle]

\* pcFileName0 and pHandle0 are the values the caller's variables hold at
\* the call: a null label leaves both as they are.
prvLabelToFilenameHandle(pcLabel, tail, pcFileName0, pHandle0) ==
    IF pcLabel.null
    THEN [pcFileName |-> pcFileName0, pHandle |-> pHandle0]
    ELSE IF 0 = memcmp(pcLabel.bytes, tail, pkcs11configLABEL_DEVICE_CERTIFICATE_FOR_TLS)
    THEN [pcFileName |-> pkcs11palFILE_NAME_CLIENT_CERTIFICATE,
          pHandle |-> eAwsDeviceCertificate]
    ELSE IF 0 = memcmp(pcLabel.bytes, tail, pkcs11configLABEL_DEVICE_PRIVATE_KEY_FOR_TLS)
    THEN [pcFileName |-> pkcs11palFILE_NAME_KEY,
          pHandle |-> eAwsDevicePrivateKey]
    ELSE IF 0 = memcmp(pcLabel.bytes, tail, pkcs11configLABEL_DEVICE_PUBLIC_KEY_FOR_TLS)
    THEN [pcFileName |-> pkcs11palFILE_NAME_PUBLIC_KEY,
          pHandle |-> eAwsDevicePublicKey]
    ELSE IF 0 = memcmp(pcLabel.bytes, tail, pkcs11configLABEL_CODE_VERIFICATION_KEY)
    THEN [pcFileName |-> pkcs11palFILE_CODE_SIGN_PUBLIC_KEY,
          pHandle |-> eAwsCodeSigningKey]
    ELSE [pcFileName |-> NULL, pHandle |-> eInvalidHandle]

\* A switch whose default case does not set the return value: an unknown
\* handle is answered CKR_OK.
prvHandleToFilename_DefaultOk(xHandle, pcFileName0, pIsPrivate0) ==
    CASE xHandle = eAwsDeviceCertificate ->
            [xReturn |-> CKR_OK,
             pcFileName |-> pkcs11palFILE_NAME_CLIENT_CERTIFICATE,
             pIsPrivate |-> CK_FALSE]
      [] xHandle = eAwsDevicePrivateKey ->
            [xReturn |-> CKR_OK,
             pcFileName |-> pkcs11palFILE_NAME_KEY,
             pIsPrivate |-> CK_TRUE]
      [] xHandle = eAwsDevicePublicKey ->
            [xReturn |-> CKR_OK,
             pcFileName |-> pkcs11palFILE_NAME_PUBLIC_KEY,
             pIsPrivate |-> CK_FALSE]
      [] xHandle = eAwsCodeSigningKey ->
            [xReturn |-> CKR_OK,
             pcFileName |-> pkcs11palFILE_CODE_SIGN_PUBLIC_KEY,
             pIsPrivate |-> CK_FALSE]
      [] OTHER ->
            [xReturn |-> CKR_OK,
             pcFileName |-> pcFileName0,
             pIsPrivate |-> pIsPrivate0]

\* pcFileName0 and pIsPrivate0 are the values the caller's variables hold at
\* the call: an unknown handle leaves both as they are.
prvHandleToFilename(xHandle, pcFileName0, pIsPrivate0) ==
    CASE xHandle = eAwsDeviceCertificate ->
            [xReturn |-> CKR_OK,
             pcFileName |-> pkcs11palFILE_NAME_CLIENT_CERTIFICATE,
             pIsPrivate |-> CK_FALSE]
      [] xHandle = eAwsDevicePrivateKey ->
            [xReturn |-> CKR_OK,
             pcFileName |-> pkcs11palFILE_NAME_KEY,
             pIsPrivate |-> CK_TRUE]
      [] xHandle = eAwsDevicePublicKey ->
            [xReturn |-> CKR_OK,
             pcFileName |-> pkcs11palFILE_NAME_PUBLIC_KEY,
             pIsPrivate |-> CK_FALSE]
      [] xHandle = eAwsCodeSigningKey ->
            [xReturn |-> CKR_OK,
             pcFileName |-> pkcs11palFILE_CODE_SIGN_PUBLIC_KEY,
             pIsPrivate |-> CK_FALSE]
      [] OTHER ->
            [xReturn |-> CKR_KEY_HANDLE_INVALID,
             pcFileName |-> pcFileName0,
             pIsPrivate |-> pIsPrivate0]

-----------------------------------------------------------------------------
(* The allocator and the file reads, by outcome.                           *)

\* pvPortMalloc( size ): NULL when the heap is exhausted; for size 0 the
\* result is NULL or a buffer, as the allocator of the build defines
\* (zeroNull).
pvPortMalloc(size, env, zeroNull) ==
    IF env = "alloc_fails" \/ (size = 0 /\ zeroNull) THEN "NULL" ELSE "buf"

\* ReadFile( hFile, buf, n, &read, NULL ) from the start of the file: FALSE
\* with nothing read, or TRUE with the first n bytes read, or TRUE with only
\* k < n bytes read.
ReadFile(fs, hFile, n, env, k) ==
    LET r == IF env = "read_fails" THEN 0
             ELSE IF env = "read_short" /\ k < n THEN k
             ELSE n
    IN [ok |-> env # "read_fails",
        read |-> r,
        data |-> SubSeq(fs[hFile].data, 1, r)]

-----------------------------------------------------------------------------
(* The object store.  Each operator computes what the function returns,    *)
(* what it leaves in the caller's variables and in the files, how many     *)
(* file handles it opened and closed, and which fault of the environment   *)
(* it met (a fault is met only by a primitive the function calls).         *)

PKCS11_PAL_Initialize == CKR_OK

\* A save that returns from its error branch right after WriteFile failed,
\* before CloseHandle.
PKCS11_PAL_SaveObject_EarlyReturn(fs, pxLabel, tail, pucData, env, k) ==
    LET ulDataSize == Len(pucData)
        r == prvLabelToFilenameHandle(pxLabel, tail, NULL, eInvalidHandle)
    IN IF r.pcFileName # NULL
       THEN LET c == CreateAlways(fs, r.pcFileName, env # "create_fails")
                created == c.hFile # INVALID_HANDLE_VALUE
                w == IF created
                     THEN WriteFile(c.fs, c.hFile, pucData, ulDataSize,
                                    env # "write_fails",
                                    IF env \in {"write_fails", "write_short"}
                                          /\ k < ulDataSize
                                    THEN k
                                    ELSE ulDataSize)
                     ELSE [ok |-> FALSE, written |-> 0, fs |-> c.fs]
            IN [xHandle |-> IF created /\ w.ok THEN r.pHandle ELSE eInvalidHandle,
                pHandle |-> r.pHandle,
                pcFileName |-> r.pcFileName,
                fs |-> w.fs,
                opened |-> IF created THEN 1 ELSE 0,
                closed |-> IF created /\ w.ok THEN 1 ELSE 0,
                fault |-> IF ~created THEN "create_fails"
                          ELSE IF ~w.ok THEN "write_fails"
                          ELSE IF w.written # ulDataSize THEN "write_short"
                          ELSE "none"]
       ELSE [xHandle |-> r.pHandle,
             pHandle |-> r.pHandle,
             pcFileName |-> r.pcFileName,
             fs |-> fs,
             opened |-> 0,
             closed |-> 0,
             fault |-> "none"]

\* env: "none", "create_fails", "write_fails" or "write_short"; k: the bytes
\* a failed or short WriteFile stored.  lpNumberOfBytesWritten is not read.
PKCS11_PAL_SaveObject(fs, pxLabel, tail, pucData, env, k) ==
    LET ulDataSize == Len(pucData)
        r == prvLabelToFilenameHandle(pxLabel, tail, NULL, eInvalidHandle)
    IN IF r.pcFileName # NULL
       THEN LET c == CreateAlways(fs, r.pcFileName, env # "create_fails")
                created == c.hFile # INVALID_HANDLE_VALUE
                w == IF created
                     THEN WriteFile(c.fs, c.hFile, pucData, ulDataSize,
                                    env # "write_fails",
                                    IF env \in {"write_fails", "write_short"}
                                          /\ k < ulDataSize
                                    THEN k
                                    ELSE ulDataSize)
                     ELSE [ok |-> FALSE, written |-> 0, fs |-> c.fs]
            IN [xHandle |-> IF created /\ w.ok THEN r.pHandle ELSE eInvalidHandle,
                pHandle |-> r.pHandle,
                pcFileName |-> r.pcFileName,
                fs |-> w.fs,
                opened |-> IF created THEN 1 ELSE 0,
                closed |-> IF created THEN 1 ELSE 0,
                fault |-> IF ~created THEN "create_fails"
                          ELSE IF ~w.ok THEN "write_fails"
                          ELSE IF w.written # ulDataSize THEN "write_short"
                          ELSE "none"]
       ELSE [xHandle |-> r.pHandle,
             pHandle |-> r.pHandle,
             pcFileName |-> r.pcFileName,
             fs |-> fs,
             opened |-> 0,
             closed |-> 0,
             fault |-> "none"]

PKCS11_PAL_FindObject(fs, pxLabel, tail, nullProbe) ==
    LET r == prvLabelToFilenameHandle(pxLabel, tail, NULL, eInvalidHandle)
        exists == prvFileExists(fs, r.pcFileName, nullProbe)
    IN [xHandle |-> IF exists THEN r.pHandle ELSE eInvalidHandle,
        pHandle |-> r.pHandle,
        pcFileName |-> r.pcFileName,
        existed |-> exists]

\* env: "none", "open_fails", "alloc_fails", "read_fails" or "read_short";
\* k: the bytes a short read delivers.
PKCS11_PAL_GetObjectValue(fs, xHandle, env, zeroNull, k) ==
    LET r == prvHandleToFilename(xHandle, NULL, "unset")
        unwritten == [NoOut EXCEPT !.pIsPrivate = r.pIsPrivate]
    IN IF r.pcFileName # NULL /\ prvFileExists(fs, r.pcFileName, FALSE)
       THEN LET hFile == OpenExisting(fs, r.pcFileName, env # "open_fails")
                opened == hFile # INVALID_HANDLE_VALUE
                ulReturn1 == IF opened THEN r.xReturn ELSE CKR_FUNCTION_FAILED
                size == Len(fs[r.pcFileName].data)
                buf == pvPortMalloc(size, env, zeroNull)
                ulReturn2 == IF ulReturn1 = CKR_OK /\ buf = "NULL"
                             THEN CKR_HOST_MEMORY
                             ELSE ulReturn1
                rd == ReadFile(fs, r.pcFileName, size, env, k)
                ulReturn3 == IF ulReturn2 = CKR_OK /\ ~rd.ok
                             THEN CKR_FUNCTION_FAILED
                             ELSE ulReturn2
                ulReturn4 == IF ulReturn3 = CKR_OK /\ rd.read # size
                             THEN CKR_FUNCTION_FAILED
                             ELSE ulReturn3
            IN [ulReturn |-> ulReturn4,
                pcFileName |-> r.pcFileName,
                existed |-> TRUE,
                vals |-> IF ulReturn1 = CKR_OK
                        THEN [unwritten EXCEPT
                                 !.ppucData = buf,
                                 !.data = IF ulReturn2 = CKR_OK THEN rd.data ELSE <<>>,
                                 !.pulDataSize = size]
                        ELSE unwritten,
                opened |-> IF opened THEN 1 ELSE 0,
                closed |-> IF opened THEN 1 ELSE 0,
                fault |-> IF ~opened THEN "open_fails"
                          ELSE IF env = "alloc_fails" THEN "alloc_fails"
                          ELSE IF ulReturn2 = CKR_OK /\ ~rd.ok THEN "read_fails"
                          ELSE IF ulReturn2 = CKR_OK /\ rd.read # size THEN "read_short"
                          ELSE "none"]
       ELSE [ulReturn |-> r.xReturn,
             pcFileName |-> r.pcFileName,
             existed |-> FALSE,
             vals |-> unwritten,
             opened |-> 0,
             closed |-> 0,
             fault |-> "none"]

\* vPortFree( pucData ) unless pucData is NULL.
PKCS11_PAL_GetObjectValueCleanup(pucData) ==
    IF pucData # "NULL" THEN "freed" ELSE pucData

\* A destroy that deletes without asking whether the file exists.
PKCS11_PAL_DestroyObject_NoExistsCheck(fs, xHandle, env) ==
    LET r == prvHandleToFilename(xHandle, NULL, CK_TRUE)
    IN IF r.xReturn = CKR_OK
       THEN LET d == DeleteFileA(fs, r.pcFileName, env # "delete_fails")
            IN [xResult |-> IF ~d.nonzero THEN CKR_FUNCTION_FAILED ELSE CKR_OK,
                pcFileName |-> r.pcFileName,
                existed |-> prvFileExists(fs, r.pcFileName, FALSE),
                fs |-> d.fs,
                fault |-> IF ~d.nonzero THEN "delete_fails" ELSE "none"]
       ELSE [xResult |-> r.xReturn, pcFileName |-> r.pcFileName,
             existed |-> FALSE, fs |-> fs, fault |-> "none"]

\* A destroy that does not look at what DeleteFileA returned.
PKCS11_PAL_DestroyObject_IgnoresDelete(fs, xHandle, env) ==
    LET r == prvHandleToFilename(xHandle, NULL, CK_TRUE)
    IN IF r.xReturn = CKR_OK
       THEN IF prvFileExists(fs, r.pcFileName, FALSE)
            THEN LET d == DeleteFileA(fs, r.pcFileName, env # "delete_fails")
                 IN [xResult |-> r.xReturn,
                     pcFileName |-> r.pcFileName,
                     existed |-> TRUE,
                     fs |-> d.fs,
                     fault |-> IF ~d.nonzero THEN "delete_fails" ELSE "none"]
            ELSE [xResult |-> r.xReturn, pcFileName |-> r.pcFileName,
                  existed |-> FALSE, fs |-> fs, fault |-> "none"]
       ELSE [xResult |-> r.xReturn, pcFileName |-> r.pcFileName,
             existed |-> FALSE, fs |-> fs, fault |-> "none"]

\* env: "none" or "delete_fails".
PKCS11_PAL_DestroyObject(fs, xHandle, env) ==
    LET r == prvHandleToFilename(xHandle, NULL, CK_TRUE)
    IN IF r.xReturn = CKR_OK
       THEN IF prvFileExists(fs, r.pcFileName, FALSE)
            THEN LET d == DeleteFileA(fs, r.pcFileName, env # "delete_fails")
                 IN [xResult |-> IF ~d.nonzero THEN CKR_FUNCTION_FAILED ELSE CKR_OK,
                     pcFileName |-> r.pcFileName,
                     existed |-> TRUE,
                     fs |-> d.fs,
                     fault |-> IF ~d.nonzero THEN "delete_fails" ELSE "none"]
            ELSE [xResult |-> r.xReturn, pcFileName |-> r.pcFileName,
                  existed |-> FALSE, fs |-> fs, fault |-> "none"]
       ELSE [xResult |-> r.xReturn, pcFileName |-> r.pcFileName,
             existed |-> FALSE, fs |-> fs, fault |-> "none"]

-----------------------------------------------------------------------------
(* State: the files, the last call with its results, the variables the     *)
(* caller passed to the last get_object_value, the open file handles; and  *)
(* for two threads that call the PAL at the same time, how far the save of *)
(* one and the get_object_value of the other have come.                    *)

\* A thread that is in no PKCS11_PAL_SaveObject call.  old: what the file
\* held when the call began.
SaverIdle == [pc |-> "idle", data |-> <<>>, xHandle |-> eInvalidHandle,
              old |-> NoFile]

\* A thread that is in no PKCS11_PAL_GetObjectValue call.  overlap: its
\* call met a save in progress; old, new: what the file held before that
\* save and the data the save stores.
GetterIdle == [pc |-> "idle", ulReturn |-> "none", ppucData |-> "unset",
               pulDataSize |-> -1, data |-> <<>>, overlap |-> FALSE,
               old |-> NoFile, new |-> <<>>]

Init ==
    /\ files = [f \in FileNames |-> NoFile]
    /\ call = NoCall
    /\ ret = NoRet
    /\ out = NoOut
    /\ openHandles = 0
    /\ saver = SaverIdle
    /\ getter = GetterIdle

Initialize ==
    /\ call' = [NoCall EXCEPT !.op = "initialize"]
    /\ ret' = [NoRet EXCEPT !.rv = PKCS11_PAL_Initialize]
    /\ out' = NoOut
    /\ UNCHANGED <<files, openHandles, saver, getter>>

SaveObject(label, data, env) ==
    \E tail \in Tails(label),
       k \in (IF env \in {"write_fails", "write_short"}
              THEN 0..Len(data)
              ELSE {0}) :
        \E r \in { PKCS11_PAL_SaveObject(files, label, tail, data, env, k) } :
           /\ r.fault = env
           /\ call' = [NoCall EXCEPT !.op = "save", !.label = label,
                                     !.data = data, !.env = env]
           /\ ret' = [NoRet EXCEPT !.xHandle = r.xHandle,
                                   !.pcFileName = r.pcFileName,
                                   !.pHandle = r.pHandle,
                                   !.opened = r.opened]
           /\ files' = r.fs
           /\ openHandles' = openHandles + r.opened - r.closed
           /\ out' = NoOut
           /\ UNCHANGED <<saver, getter>>

FindObject(label) ==
    \E tail \in Tails(label), nullProbe \in BOOLEAN :
        \E r \in { PKCS11_PAL_FindObject(files, label, tail, nullProbe) } :
           /\ nullProbe => r.pcFileName = NULL
           /\ call' = [NoCall EXCEPT !.op = "find", !.label = label]
           /\ ret' = [NoRet EXCEPT !.xHandle = r.xHandle,
                                   !.pcFileName = r.pcFileName,
                                   !.pHandle = r.pHandle,
                                   !.existed = r.existed]
           /\ out' = NoOut
           /\ UNCHANGED <<files, openHandles, saver, getter>>

GetObjectValue(handle, env) ==
    \E zeroNull \in BOOLEAN,
       k \in (IF env = "read_short" THEN 0..MaxDataLen ELSE {0}) :
        \E r \in { PKCS11_PAL_GetObjectValue(files, handle, env, zeroNull, k) } :
           /\ r.fault = env
           /\ zeroNull => r.vals.pulDataSize = 0
           /\ call' = [NoCall EXCEPT !.op = "get", !.handle = handle, !.env = env]
           /\ ret' = [NoRet EXCEPT !.rv = r.ulReturn,
                                   !.pcFileName = r.pcFileName,
                                   !.existed = r.existed,
                                   !.opened = r.opened]
           /\ out' = r.vals
           /\ openHandles' = openHandles + r.opened - r.closed
           /\ UNCHANGED <<files, saver, getter>>

\* The caller releases what the last get_object_value left in *ppucData.
GetObjectValueCleanup ==
    /\ call.op = "get"
    /\ out.ppucData \in {"NULL", "buf"}
    /\ call' = [NoCall EXCEPT !.op = "cleanup", !.handle = call.handle]
    /\ ret' = NoRet
    /\ out' = [out EXCEPT !.ppucData = PKCS11_PAL_GetObjectValueCleanup(out.ppucData)]
    /\ UNCHANGED <<files, openHandles, saver, getter>>

DestroyObject(handle, env) ==
    \E r \in { PKCS11_PAL_DestroyObject(files, handle, env) } :
       /\ r.fault = env
       /\ call' = [NoCall EXCEPT !.op = "destroy", !.handle = handle, !.env = env]
       /\ ret' = [NoRet EXCEPT !.rv = r.xResult,
                               !.pcFileName = r.pcFileName,
                               !.existed = r.existed]
       /\ files' = r.fs
       /\ out' = NoOut
       /\ UNCHANGED <<openHandles, saver, getter>>

SaveEnvs == {"none", "create_fails", "write_fails", "write_short"}
GetEnvs == {"none", "open_fails", "alloc_fails", "read_fails", "read_short"}
DestroyEnvs == {"none", "delete_fails"}

Next ==
    \/ Initialize
    \/ \E label \in LabelInputs, data \in Blobs, env \in SaveEnvs :
           SaveObject(label, data, env)
    \/ \E label \in LabelInputs : FindObject(label)
    \/ \E handle \in HandleInputs, env \in GetEnvs : GetObjectValue(handle, env)
    \/ GetObjectValueCleanup
    \/ \E handle \in HandleInputs, env \in DestroyEnvs : DestroyObject(handle, env)

Spec == Init /\ [][Next]_vars

TypeOK ==
    /\ files \in [FileNames -> [exists : BOOLEAN, data : Blobs]]
    /\ call.op \in {"none", "initialize", "save", "find", "get", "cleanup", "destroy"}
    /\ openHandles \in Nat

-----------------------------------------------------------------------------
(* Two threads in the PAL at once: one saves the device certificate while  *)
(* the other reads it.  The PAL takes no lock; each function is a sequence *)
(* of Win32 calls, and a step of a thread is one of them.  What keeps the  *)
(* threads apart is the access and the share mode each passes to           *)
(* CreateFileA.                                                            *)

GENERIC_READ == "GENERIC_READ"
GENERIC_WRITE == "GENERIC_WRITE"
FILE_SHARE_READ == "FILE_SHARE_READ"

\* Both functions opening their file for reading and writing by others.
OpenModes_ShareAll ==
    [save |-> [access |-> GENERIC_WRITE,
               share |-> {FILE_SHARE_READ, "FILE_SHARE_WRITE"}],
     get |-> [access |-> GENERIC_READ,
              share |-> {FILE_SHARE_READ, "FILE_SHARE_WRITE"}]]

\* dwDesiredAccess and dwShareMode of the two CreateFileA calls: save asks
\* for GENERIC_WRITE and shares nothing (0), get_object_value asks for
\* GENERIC_READ and shares reading.
OpenModes ==
    [save |-> [access |-> GENERIC_WRITE, share |-> {}],
     get |-> [access |-> GENERIC_READ, share |-> {FILE_SHARE_READ}]]

\* A share mode lets another handle have the access.
Permits(share, access) ==
    \/ access = GENERIC_READ /\ FILE_SHARE_READ \in share
    \/ access = GENERIC_WRITE /\ "FILE_SHARE_WRITE" \in share

\* The location both threads work on, as the registry resolves it.
ConcLabel == LabelPtr(pkcs11configLABEL_DEVICE_CERTIFICATE_FOR_TLS)
ConcSave == prvLabelToFilenameHandle(ConcLabel, <<>>, NULL, eInvalidHandle)
ConcGet == prvHandleToFilename(ConcSave.pHandle, NULL, "unset")

SaverHolds == saver.pc \in {"created", "written"}
GetterHolds == getter.pc \in {"opened", "allocated", "finished"}

\* The modes of the handles that are open on the file.
OpenOn ==
    (IF SaverHolds THEN {OpenModes.save} ELSE {})
    \cup (IF GetterHolds THEN {OpenModes.get} ELSE {})

\* CreateFileA fails with ERROR_SHARING_VIOLATION when a handle that is open
\* on the file does not share the access asked for, or the share mode asked
\* for does not admit the access that handle has.
SharingViolation(mode) ==
    \E o \in OpenOn : ~Permits(o.share, mode.access) \/ ~Permits(mode.share, o.access)

\* save, lines 234-247: CreateFileA( ..., CREATE_ALWAYS, ... ).
S_Create(data) ==
    /\ saver.pc = "idle"
    /\ \E c \in { CreateAlways(files, ConcSave.pcFileName,
                               ~SharingViolation(OpenModes.save)) } :
          /\ files' = c.fs
          /\ saver' = IF c.hFile # INVALID_HANDLE_VALUE
                      THEN [SaverIdle EXCEPT !.pc = "created", !.data = data,
                                             !.xHandle = ConcSave.pHandle,
                                             !.old = files[ConcSave.pcFileName]]
                      ELSE [SaverIdle EXCEPT !.pc = "done", !.data = data,
                                             !.old = files[ConcSave.pcFileName]]
          /\ getter' = IF GetterHolds
                       THEN [getter EXCEPT !.overlap = TRUE,
                                           !.old = files[ConcSave.pcFileName],
                                           !.new = data]
                       ELSE getter
    /\ UNCHANGED <<call, ret, out, openHandles>>

\* save, lines 250-257: WriteFile, which stores k bytes and returns ok.
S_Write(ok, k) ==
    /\ saver.pc = "created"
    /\ k <= Len(saver.data)
    /\ \E w \in { WriteFile(files, ConcSave.pcFileName, saver.data,
                            Len(saver.data), ok, k) } :
          /\ files' = w.fs
          /\ saver' = [saver EXCEPT !.pc = "written",
                                    !.xHandle = IF w.ok THEN saver.xHandle
                                                ELSE eInvalidHandle]
    /\ UNCHANGED <<call, ret, out, openHandles, getter>>

\* save, lines 260-263: CloseHandle.
S_Close ==
    /\ saver.pc = "written"
    /\ saver' = [saver EXCEPT !.pc = "done"]
    /\ UNCHANGED <<files, call, ret, out, openHandles, getter>>

\* save, line 266: return xHandle.
S_Return ==
    /\ saver.pc = "done"
    /\ saver' = SaverIdle
    /\ UNCHANGED <<files, call, ret, out, openHandles, getter>>

\* get_object_value, lines 308-312: prvHandleToFilename and prvFileExists.
G_Exists ==
    /\ getter.pc = "idle"
    /\ getter' = IF ConcGet.pcFileName # NULL
                    /\ prvFileExists(files, ConcGet.pcFileName, FALSE)
                 THEN [GetterIdle EXCEPT !.pc = "exists",
                                         !.ulReturn = ConcGet.xReturn]
                 ELSE [GetterIdle EXCEPT !.pc = "done",
                                         !.ulReturn = ConcGet.xReturn]
    /\ UNCHANGED <<files, call, ret, out, openHandles, saver>>

\* get_object_value, lines 315-328: CreateFileA( ..., OPEN_EXISTING, ... ).
G_Open ==
    /\ getter.pc = "exists"
    /\ \E h \in { OpenExisting(files, ConcGet.pcFileName,
                               ~SharingViolation(OpenModes.get)) } :
          getter' = [getter EXCEPT
                        !.pc = IF h # INVALID_HANDLE_VALUE THEN "opened" ELSE "done",
                        !.ulReturn = IF h # INVALID_HANDLE_VALUE THEN @
                                     ELSE CKR_FUNCTION_FAILED,
                        !.overlap = SaverHolds,
                        !.old = IF SaverHolds THEN saver.old ELSE @,
                        !.new = IF SaverHolds THEN saver.data ELSE @]
    /\ UNCHANGED <<files, call, ret, out, openHandles, saver>>

\* get_object_value, lines 330-342: GetFileSize and pvPortMalloc.
G_Alloc(zeroNull) ==
    /\ getter.pc = "opened"
    /\ \E size \in { Len(files[ConcGet.pcFileName].data) } :
          \E buf \in { pvPortMalloc(size, "none", zeroNull) } :
             getter' = [getter EXCEPT
                           !.pc = IF buf = "NULL" THEN "finished" ELSE "allocated",
                           !.ulReturn = IF buf = "NULL" THEN CKR_HOST_MEMORY ELSE @,
                           !.ppucData = buf,
                           !.pulDataSize = size]
    /\ UNCHANGED <<files, call, ret, out, openHandles, saver>>

\* get_object_value, lines 345-367: ReadFile and the count it reports.
G_Read ==
    /\ getter.pc = "allocated"
    /\ \E rd \in { ReadFile(files, ConcGet.pcFileName, getter.pulDataSize,
                            "none", 0) } :
          getter' = [getter EXCEPT
                        !.pc = "finished",
                        !.ulReturn = IF ~rd.ok \/ rd.read # getter.pulDataSize
                                     THEN CKR_FUNCTION_FAILED
                                     ELSE CKR_OK,
                        !.data = rd.data]
    /\ UNCHANGED <<files, call, ret, out, openHandles, saver>>

\* get_object_value, lines 370-373: CloseHandle.
G_Close ==
    /\ getter.pc = "finished"
    /\ getter' = [getter EXCEPT !.pc = "done"]
    /\ UNCHANGED <<files, call, ret, out, openHandles, saver>>

\* get_object_value, line 376: return ulReturn.
G_Return ==
    /\ getter.pc = "done"
    /\ getter' = GetterIdle
    /\ UNCHANGED <<files, call, ret, out, openHandles, saver>>

ConcNext ==
    \/ \E data \in Blobs : S_Create(data)
    \/ \E ok \in BOOLEAN, k \in 0..MaxDataLen : S_Write(ok, k)
    \/ S_Close
    \/ S_Return
    \/ G_Exists
    \/ G_Open
    \/ \E zeroNull \in BOOLEAN : G_Alloc(zeroNull)
    \/ G_Read
    \/ G_Close
    \/ G_Return

ConcSpec == Init /\ [][ConcNext]_vars

-----------------------------------------------------------------------------
(* The registry as documented: label, handle, storage location and privacy *)
(* flag of the four object kinds.  The properties below compare what the   *)
(* functions do with this table.                                           *)

Registry ==
    { [label |-> pkcs11configLABEL_DEVICE_CERTIFICATE_FOR_TLS,
       handle |-> eAwsDeviceCertificate,
       location |-> pkcs11palFILE_NAME_CLIENT_CERTIFICATE,
       private |-> CK_FALSE],
      [label |-> pkcs11configLABEL_DEVICE_PRIVATE_KEY_FOR_TLS,
       handle |-> eAwsDevicePrivateKey,
       location |-> pkcs11palFILE_NAME_KEY,
       private |-> CK_TRUE],
      [label |-> pkcs11configLABEL_DEVICE_PUBLIC_KEY_FOR_TLS,
       handle |-> eAwsDevicePublicKey,
       location |-> pkcs11palFILE_NAME_PUBLIC_KEY,
       private |-> CK_FALSE],
      [label |-> pkcs11configLABEL_CODE_VERIFICATION_KEY,
       handle |-> eAwsCodeSigningKey,
       location |-> pkcs11palFILE_CODE_SIGN_PUBLIC_KEY,
       private |-> CK_FALSE] }

ValidHandles == { e.handle : e \in Registry }

\* A label that is byte for byte one of the four label constants.
IsKnown(label) == ~label.null /\ label.bytes \in KnownLabels

\* A label no shorter than the label constants: memcmp reads no byte beyond
\* it, so what it resolves to depends on the bytes of the label alone.
ReadWithin(label) ==
    label.null \/ \A c \in KnownLabels : Len(label.bytes) >= Len(c)

KindOfLabel(label) == CHOOSE e \in Registry : e.label = label.bytes
KindOfHandle(h) == CHOOSE e \in Registry : e.handle = h

-----------------------------------------------------------------------------
(* Properties.                                                             *)

\* C1: round trip.  After save(L, D, len(D)), met by no fault of the
\* environment, returned a non-zero handle h for a known label L, find(L)
\* returns h, and get_object_value(h), met by no
\* fault of the environment, succeeds with data D, length len(D), and the
\* privacy flag set exactly for the device private key; D of length 0
\* included.
C1_RoundTrip ==
    [][ (call.op = "save" /\ IsKnown(call.label) /\ call.env = "none"
           /\ ret.xHandle # eInvalidHandle) =>
          /\ (call'.op = "find" /\ call'.label = call.label) =>
                 ret'.xHandle = ret.xHandle
          /\ (call'.op = "get" /\ call'.handle = ret.xHandle /\ call'.env = "none") =>
                 /\ ret'.rv = CKR_OK
                 /\ out'.ppucData = "buf"
                 /\ out'.data = call.data
                 /\ out'.pulDataSize = Len(call.data)
                 /\ (out'.pIsPrivate = CK_TRUE) <=>
                        (call.label.bytes = pkcs11configLABEL_DEVICE_PRIVATE_KEY_FOR_TLS)
      ]_vars

\* C2: overwrite.  After a successful save(L, D1) directly followed by a
\* successful save(L, D2), both met by no fault, get_object_value of the handle, met by no fault,
\* returns exactly D2 with length len(D2), whatever the lengths of D1, D2.
C2_Overwrite ==
    [][ ( /\ call.op = "save" /\ IsKnown(call.label) /\ ret.xHandle # eInvalidHandle
          /\ call.env = "none"
          /\ call'.op = "save" /\ call'.label = call.label /\ call'.env = "none"
          /\ ret'.xHandle # eInvalidHandle ) =>
          \A zeroNull \in BOOLEAN :
              LET g == PKCS11_PAL_GetObjectValue(files', ret'.xHandle, "none",
                                                 zeroNull, 0)
              IN /\ g.ulReturn = CKR_OK
                 /\ g.vals.data = call'.data
                 /\ g.vals.pulDataSize = Len(call'.data)
      ]_vars

\* C3: get_object_value of a valid handle whose file does not exist fails
\* with CKR_FUNCTION_FAILED.
C3_GetAbsentFails ==
    (call.op = "get" /\ call.handle \in ValidHandles
        /\ ~files[KindOfHandle(call.handle).location].exists)
    => ret.rv = CKR_FUNCTION_FAILED

\* C4: find(label) returns the handle of the label's kind if the label is one
\* of the four known labels and its file exists, and the invalid handle 0 in
\* every other case (no label, another label, no file).  Stated for the
\* labels whose comparison reads no byte beyond the label.
C4_FindIffKnownAndPresent ==
    (call.op = "find" /\ ReadWithin(call.label)) =>
        ret.xHandle =
            IF IsKnown(call.label) /\ files[KindOfLabel(call.label).location].exists
            THEN KindOfLabel(call.label).handle
            ELSE eInvalidHandle

\* C5: destroy of a handle that is none of the four valid ones fails with
\* CKR_OBJECT_HANDLE_INVALID and changes no file.
C5_DestroyInvalidHandle ==
    [][ (call'.op = "destroy" /\ call'.handle \notin ValidHandles) =>
          (ret'.rv = CKR_OBJECT_HANDLE_INVALID /\ files' = files) ]_vars

\* C6: get_object_value of a handle that is none of the four valid ones (0
\* included) fails with CKR_KEY_HANDLE_INVALID, hands the caller no buffer,
\* opens no file and changes no file.
C6_GetInvalidHandle ==
    [][ (call'.op = "get" /\ call'.handle \notin ValidHandles) =>
          /\ ret'.rv = CKR_KEY_HANDLE_INVALID
          /\ out'.ppucData = "unset"
          /\ ret'.opened = 0
          /\ openHandles' = openHandles
          /\ files' = files ]_vars

C6_Witness ==
    /\ call.op = "get"
    /\ call.handle = eInvalidHandle
    /\ ret.rv = CKR_KEY_HANDLE_INVALID
    /\ \E f \in FileNames : files[f].exists

\* C7: idempotent destroy.  destroy of a valid handle whose file is absent
\* returns CKR_OK and changes no file; destroy met by no fault succeeds; and
\* a destroy(h) that directly follows a successful destroy(h) succeeds and
\* leaves the files as the first one left them.
C7_IdempotentDestroy ==
    [][ (call'.op = "destroy" /\ call'.handle \in ValidHandles) =>
          /\ ~files[KindOfHandle(call'.handle).location].exists =>
                 (ret'.rv = CKR_OK /\ files' = files)
          /\ call'.env = "none" => ret'.rv = CKR_OK
          /\ (call.op = "destroy" /\ call.handle = call'.handle /\ ret.rv = CKR_OK) =>
                 (ret'.rv = CKR_OK /\ files' = files) ]_vars

C7_Witness ==
    /\ call.op = "destroy"
    /\ call.handle \in ValidHandles
    /\ ~ret.existed
    /\ ret.rv = CKR_OK
    /\ \E f \in FileNames : files[f].exists

\* C8: destroy removes the content, never the mapping.  After a destroy(h)
\* that returned CKR_OK for a valid h the file is absent and find of the
\* label of h returns 0; a destroy whose DeleteFileA fails returns
\* CKR_FUNCTION_FAILED and changes no file; and a save of the label of h that
\* follows, met by no fault, returns h again and stores the data.
C8_DestroyKeepsMapping ==
    [][ /\ (call'.op = "destroy" /\ call'.handle \in ValidHandles /\ ret'.rv = CKR_OK) =>
               ~files'[KindOfHandle(call'.handle).location].exists
        /\ (call'.op = "destroy" /\ call'.env = "delete_fails") =>
               (ret'.rv = CKR_FUNCTION_FAILED /\ files' = files)
        /\ (call.op = "destroy" /\ call.handle \in ValidHandles /\ ret.rv = CKR_OK) =>
               /\ (call'.op = "find"
                     /\ call'.label = LabelPtr(KindOfHandle(call.handle).label)) =>
                      ret'.xHandle = eInvalidHandle
               /\ (call'.op = "save"
                     /\ call'.label = LabelPtr(KindOfHandle(call.handle).label)
                     /\ call'.env = "none") =>
                      /\ ret'.xHandle = call.handle
                      /\ files'[KindOfHandle(call.handle).location] = File(call'.data)
      ]_vars

C8_Witness ==
    /\ call.op = "destroy"
    /\ call.handle \in ValidHandles
    /\ ret.existed
    /\ ret.rv = CKR_OK
    /\ ~files[KindOfHandle(call.handle).location].exists

\* C9: registry consistency.  For each known label the registry resolves the
\* documented non-zero handle and location (as save and find record them),
\* the four handles and the four locations are pairwise distinct, and
\* prvHandleToFilename of that handle succeeds with the same location and
\* with the privacy flag set for the private key only (as get_object_value
\* records it).
C9_RegistryConsistent ==
    /\ (call.op \in {"save", "find"} /\ IsKnown(call.label)) =>
          LET e == KindOfLabel(call.label)
              q == prvHandleToFilename(ret.pHandle, NULL, "unset")
          IN /\ ret.pHandle = e.handle
             /\ ret.pHandle # eInvalidHandle
             /\ ret.pcFileName = e.location
             /\ q.xReturn = CKR_OK
             /\ q.pcFileName = ret.pcFileName
             /\ q.pIsPrivate = e.private
             /\ \A other \in LabelInputs :
                    (IsKnown(other) /\ other # call.label) =>
                        LET o == prvLabelToFilenameHandle(other, <<>>, NULL,
                                                          eInvalidHandle)
                        IN o.pHandle # ret.pHandle /\ o.pcFileName # ret.pcFileName
    /\ (call.op = "get" /\ call.handle \in ValidHandles) =>
          LET e == KindOfHandle(call.handle)
          IN /\ ret.rv # CKR_KEY_HANDLE_INVALID
             /\ ret.pcFileName = e.location
             /\ out.pIsPrivate = e.private
             /\ (out.pIsPrivate = CK_TRUE) <=> (call.handle = eAwsDevicePrivateKey)

C9_Witness ==
    /\ call.op = "save"
    /\ call.label = LabelPtr(pkcs11configLABEL_DEVICE_PRIVATE_KEY_FOR_TLS)
    /\ ret.xHandle = eAwsDevicePrivateKey
    /\ ret.pcFileName = pkcs11palFILE_NAME_KEY

\* C10: a label that is not byte for byte one of the four label constants,
\* one that starts with a known label and goes on with further bytes
\* included, resolves to the invalid handle 0 and a null location.  Stated
\* for the labels whose comparison reads no byte beyond the label.
C10_UnknownLabelUnresolved ==
    (call.op \in {"save", "find"} /\ ~call.label.null /\ ReadWithin(call.label)
        /\ ~IsKnown(call.label))
    => (ret.pHandle = eInvalidHandle /\ ret.pcFileName = NULL)

\* C11: an object is fully present or absent.  Every step, a save whose
\* CreateFileA or WriteFile failed included, leaves each location absent, or
\* as it was, or holding exactly the bytes of the save that has just
\* succeeded for it: so a present location always holds the complete bytes
\* of the most recent successful save of its kind.  Stated for the saves
\* under a known label and for every step of the other operations.
C11_PresentOrAbsent ==
    [][ (call'.op = "save" => IsKnown(call'.label)) =>
          \A f \in FileNames :
              files'[f].exists =>
                  \/ files'[f] = files[f]
                  \/ /\ call'.op = "save"
                     /\ ret'.xHandle # eInvalidHandle
                     /\ KindOfLabel(call'.label).location = f
                     /\ files'[f] = File(call'.data) ]_vars

\* C12: save returns the invalid handle 0 whenever CreateFileA or WriteFile
\* failed, and whenever it returns a non-zero handle the location of the
\* label holds exactly the data_length bytes of data: a write that stored
\* fewer bytes is not reported as success.  Stated for the known labels.
C12_SaveSuccessMeansStored ==
    (call.op = "save" /\ IsKnown(call.label)) =>
        /\ call.env \in {"create_fails", "write_fails"} =>
               ret.xHandle = eInvalidHandle
        /\ ret.xHandle # eInvalidHandle =>
               files[KindOfLabel(call.label).location] = File(call.data)

\* C13: save with a label the registry cannot map, that is no label (null)
\* or a label that is not one of the four known labels, returns the invalid
\* handle 0, opens no file and changes no file.  Stated for the labels whose
\* comparison reads no byte beyond the label.
C13_UnmappedSaveTouchesNothing ==
    [][ (call'.op = "save" /\ ReadWithin(call'.label) /\ ~IsKnown(call'.label)) =>
          /\ ret'.xHandle = eInvalidHandle
          /\ ret'.opened = 0
          /\ openHandles' = openHandles
          /\ files' = files ]_vars

\* C14: buffer ownership.  A buffer get_object_value allocated is handed to
\* the caller together with CKR_OK or released before the function returns:
\* whenever get_object_value fails (CKR_HOST_MEMORY, or CKR_FUNCTION_FAILED
\* after a failed or short read) the caller's *ppucData names no allocated
\* buffer.
C14_NoBufferOnFailure ==
    (call.op = "get" /\ ret.rv # CKR_OK) => out.ppucData # "buf"

\* C15: file-handle discipline.  Whatever CreateFileA, WriteFile, ReadFile,
\* pvPortMalloc or DeleteFileA did, once a call has returned no file handle
\* it opened is still open.
C15_NoHandleLeftOpen ==
    openHandles = 0

C15_Witness ==
    /\ call.op = "get"
    /\ call.env = "read_fails"
    /\ ret.opened = 1
    /\ ret.rv = CKR_FUNCTION_FAILED
    /\ openHandles = 0

\* C16: independence of the four locations.  initialize, find,
\* get_object_value and the release of its buffer change no file; a save
\* under a known label and a destroy of a valid handle change no file but
\* the one of their own kind; so a present location holds exactly the bytes
\* last saved for its kind: its content changes only by a save of its kind,
\* and then to exactly the data of that save.
C16_Independence ==
    [][ /\ call'.op \in {"initialize", "find", "get", "cleanup"} => files' = files
        /\ (call'.op = "save" /\ IsKnown(call'.label)) =>
               \A f \in FileNames \ { KindOfLabel(call'.label).location } :
                   files'[f] = files[f]
        /\ (call'.op = "destroy" /\ call'.handle \in ValidHandles) =>
               \A f \in FileNames \ { KindOfHandle(call'.handle).location } :
                   files'[f] = files[f]
        /\ (call'.op = "save" => IsKnown(call'.label)) =>
               \A f \in FileNames :
                   (files'[f].exists /\ files'[f] # files[f]) =>
                       /\ call'.op = "save"
                       /\ KindOfLabel(call'.label).location = f
                       /\ files'[f].data = call'.data ]_vars

\* The get_object_value of the reading thread returned success with a torn
\* blob: a buffer whose bytes are neither the complete object the file held
\* before the save it met nor the complete data of that save.
TornRead ==
    /\ getter.ulReturn = CKR_OK
    /\ getter.ppucData = "buf"
    /\ File(getter.data) # getter.old
    /\ getter.data # getter.new

====
